---- MODULE Spec2Model ----
\* Verification model of AgentDank/dank-mcp:
\*   - data.CheckCacheFile / data.MakeCacheFile        (src/data/cache.go)
\*   - ct.FetchBrands, the paginated fetch-and-cache   (src/data/us/ct/ct.go)
\*   - ct.Measure, the measurement value type          (src/unnamed/part_000)
\*   - ct.CleanBrands, the filter of fetched records   (src/data/us/ct/ct.go)
\*   - main.primeData, fetch, clean, CSV export, insert (src/main.go)
\*
\* Bytes are modelled as sequences of tokens.  A cache file or an HTTP body is
\* a sequence over "[", "]", ",", "\n", record names and junk; a measurement
\* text is a sequence of one-character strings.

EXTENDS Integers, Sequences, FiniteSets, TLC

\* ---------------------------------------------------------------------------
\* Bounds of the model
\* ---------------------------------------------------------------------------

\* largest remote collection
MaxN == 3

\* sessions (calls of FetchBrands) in one behaviour
MaxSessions == 2

\* the clock stops here
MaxTime == 3

\* the batch size of one page request, scaled down from the source's 5000
batchLimit == 2

\* ---------------------------------------------------------------------------
\* Tokens and JSON decoding of a record collection
\* ---------------------------------------------------------------------------

\* the names of the records of the remote collection, in $order
RecName == <<"r1", "r2", "r3", "r4", "r5", "r6", "r7", "r8", "r9">>

RecSet == {RecName[i] : i \in 1..Len(RecName)}

\* the name of a record one of whose measurement fields holds a text that
\* FromString rejects
MalformedRec == "rm"

\* no artifact on disk
NoFile == <<"ENOENT">>

IsSpace(t) == t = "\n"

\* bytes.TrimSpace: leading and trailing white space removed
RECURSIVE TrimLeft(_)
TrimLeft(s) ==
    IF Len(s) > 0 /\ IsSpace(s[1]) THEN TrimLeft(Tail(s)) ELSE s

RECURSIVE TrimRight(_)
TrimRight(s) ==
    IF Len(s) > 0 /\ IsSpace(s[Len(s)])
    THEN TrimRight(SubSeq(s, 1, Len(s) - 1))
    ELSE s

TrimSpace(s) == TrimRight(TrimLeft(s))

\* bytes.TrimPrefix(s, p) for a one-token prefix
TrimPrefix(s, p) ==
    IF Len(s) > 0 /\ s[1] = p THEN Tail(s) ELSE s

\* bytes.TrimSuffix(s, p) for a one-token suffix
TrimSuffix(s, p) ==
    IF Len(s) > 0 /\ s[Len(s)] = p THEN SubSeq(s, 1, Len(s) - 1) ELSE s

\* the tokens of s that are not white space (JSON ignores it between tokens)
RECURSIVE NoSpace(_)
NoSpace(s) ==
    IF s = <<>> THEN <<>>
    ELSE IF IsSpace(s[1]) THEN NoSpace(Tail(s))
    ELSE <<s[1]>> \o NoSpace(Tail(s))

\* the elements at the odd positions of s
OddElems(s) == [i \in 1..((Len(s) + 1) \div 2) |-> s[2 * i - 1]]

\* the array text of a record sequence: brackets, one comma between records
RECURSIVE Joined(_)
Joined(recs) ==
    IF Len(recs) = 0 THEN <<>>
    ELSE IF Len(recs) = 1 THEN <<recs[1]>>
    ELSE <<recs[1], ",">> \o Joined(Tail(recs))

EncodeBrands(recs) == <<"[">> \o Joined(recs) \o <<"]">>

\* ---------------------------------------------------------------------------
\* State
\* ---------------------------------------------------------------------------

VARIABLES
    remote,          \* the remote collection, ordered by registration_number
    now,             \* the wall clock
    cache,           \* contents of .dank/cache/us_ct_brands.json, or NoFile
    cacheMTime,      \* its modification time
    sessions,        \* calls of FetchBrands made so far
    pc,              \* position of the current call of FetchBrands
    maxCacheAge,     \* its argument
    brands,          \* its accumulator
    offset,          \* its page offset
    firstLoop,       \* its comma control bit
    deleteCacheFile, \* its preservation control bit
    handle,          \* its cacheFile handle: "nil", "open", "closed"
    terminal,        \* what the deferred function did: "none", "commit", "abort"
    ret,             \* outcome of the call: "none", "ok", "err"
    retBrands,       \* the returned slice (<<>> stands for nil too)
    retErr,          \* the returned error
    cacheErr,        \* history: the error CheckCacheFile gave this call
    cacheBytes,      \* history: the bytes CheckCacheFile gave this call
    cacheBefore,     \* history: the artifact when the call began
    requests,        \* history: the offsets requested by this call, in order
    failedAt,        \* history: index of the page request that failed, or 0
    writeFailed,     \* history: some write to the cache file failed
    closes,          \* history: the calls of cacheFile.Close() in this call
    decodeErr,       \* history: why the page that failed did not decode
    ms,              \* two Measure values (their amount fields)
    mtext,           \* the text last given to a Measure operation
    merr,            \* outcome of the last Measure operation
    mop,             \* the last Measure operation
    mpath,           \* the test of FromString that decided the last parse
    mjson,           \* the JSON bytes last produced or consumed
    marg,            \* history: the amount given to NewMeasure
    bs,              \* the slice given to CleanBrands
    cleaned,         \* the slice CleanBrands returned
    cop,             \* the last operation on the slice
    ppc,             \* position of primeData, "off" when it does not run
    csv,             \* contents of .dank/cache/us_ct_brands.csv, or NoFile
    dbRows,          \* the rows of the table brands_us_ct
    perr,            \* the error primeData returned
    steps            \* history: the steps of primeData taken, in order

fetchVars == <<remote, now, cache, cacheMTime, sessions, pc, maxCacheAge,
               brands, offset, firstLoop, deleteCacheFile, handle, terminal,
               ret, retBrands, retErr, cacheErr, cacheBytes, cacheBefore,
               requests, failedAt, writeFailed, closes, decodeErr>>

measureVars == <<ms, mtext, merr, mop, mpath, mjson, marg>>

cleanVars == <<bs, cleaned, cop>>

primeVars == <<ppc, csv, dbRows, perr, steps>>

vars == <<fetchVars, measureVars, cleanVars, primeVars>>

\* ---------------------------------------------------------------------------
\* data/cache.go
\* ---------------------------------------------------------------------------

\* CheckCacheFile with the age test off by one: stale at age = maxAge
CheckCacheFileGe(file, mtime, clock, maxAge, readOk) ==
    IF file = NoFile
    THEN [err |-> "cache file not found", bytes |-> <<>>]
    ELSE IF maxAge # 0 /\ clock >= mtime + maxAge
    THEN [err |-> "cache file is too old", bytes |-> <<>>]
    ELSE IF ~readOk
    THEN [err |-> "cache file read error", bytes |-> <<>>]
    ELSE [err |-> "nil", bytes |-> file]

\* CheckCacheFile(filename, maxAge): os.Stat fails when there is no file;
\* readOk is the environment letting os.ReadFile succeed
CheckCacheFile(file, mtime, clock, maxAge, readOk) ==
    IF file = NoFile
    THEN [err |-> "cache file not found", bytes |-> <<>>]
    ELSE IF maxAge # 0 /\ clock > mtime + maxAge
    THEN [err |-> "cache file is too old", bytes |-> <<>>]
    ELSE IF ~readOk
    THEN [err |-> "cache file read error", bytes |-> <<>>]
    ELSE [err |-> "nil", bytes |-> file]

\* MakeCacheFile(filename): os.MkdirAll, then os.Create truncates the file
MakeCacheFile(file, createOk) ==
    IF createOk THEN [err |-> "nil", file |-> <<>>]
                ELSE [err |-> "failed to create cache file", file |-> file]

\* (*os.File).Write / WriteString; a failed write appends nothing.  Once a
\* write of a call has failed (the disk is full) its later writes fail too.
FileWrite(file, bytes, ok) == IF ok THEN file \o bytes ELSE file

\* ---------------------------------------------------------------------------
\* The remote endpoint
\* ---------------------------------------------------------------------------

Min(a, b) == IF a < b THEN a ELSE b

\* the JSON array of the records at $offset, at most $limit of them
PageBody(coll, off, limit) ==
    EncodeBrands(SubSeq(coll, off + 1, Min(off + limit, Len(coll)))) \o <<"\n">>

\* bodies that are not a JSON array of records
BadBodies == { <<>>, <<"x">>, <<"[", "r1", ",", "]">>, <<"[", "r1">> }

\* what one page request can come back with
Responses(coll, off, limit) ==
    {[doErr |-> TRUE, status |-> 0, readErr |-> FALSE, body |-> <<>>]}
    \cup {[doErr |-> FALSE, status |-> st, readErr |-> TRUE, body |-> <<>>] :
              st \in {200, 500}}
    \cup {[doErr |-> FALSE, status |-> 500, readErr |-> FALSE, body |-> <<"x">>]}
    \cup {[doErr |-> FALSE, status |-> 200, readErr |-> FALSE, body |-> b] :
              b \in BadBodies \cup {PageBody(coll, off, limit)}}

\* ---------------------------------------------------------------------------
\* Texts: a measurement string is a sequence of one-character strings
\* ---------------------------------------------------------------------------

\* longest text enumerated over CoreChars
MaxTextLen == 3

CoreChars == {"0", "1", ".", ",", "<", ">", "%", "-", "T"}

\* texts of the source feed and of the documentation, and texts that
\* strconv.ParseFloat treats specially
Literals ==
    { <<"T", "R", "C">>,
      <<"L", "O", "Q">>,
      <<"<", "L", "O", "Q">>,
      <<"0", "L", "O", "Q">>,
      <<"<", "0", ".", "1">>,
      <<",", "<", "0", ".", "1">>,
      <<"0", "<", "0", ".", "1", "0">>,
      <<"4", "5", ".", "2", "%">>,
      <<"1", ".", "1", ".", "2">>,
      <<"1", "0", "0">>,
      <<"1", "0", "1">>,
      <<">", "5", "%">>,
      <<"5", "0", "%", "%">>,
      <<">", ">", "5">>,
      <<"+", "5">>,
      <<"-", "5">>,
      <<">", "I", "n", "f">>,
      <<">", "N", "a", "N">>,
      <<"+", "I", "n", "f">>,
      <<"-", "I", "n", "f">>,
      <<"I", "n", "f">>,
      <<"N", "a", "N">>,
      <<"(", "1", ")">>,
      <<"1", "/", "2">>,
      <<"1", "backtick">>,
      <<"a", "-", "O", "c", "i", "m", "e", "n", "e", ":", " ", "1", ".", "0", "8">>,
      <<"t", "e", "r", "p", "i", "n", "o", "l", "e", "n", "e", ":", " ", "1", ".", "2", "2">> }

Texts == UNION {[1..n -> CoreChars] : n \in 0..MaxTextLen} \cup Literals

LowerSeq ==
    <<"a", "b", "c", "d", "e", "f", "g", "h", "i", "j", "k", "l", "m",
    "n", "o", "p", "q", "r", "s", "t", "u", "v", "w", "x", "y", "z">>

UpperSeq ==
    <<"A", "B", "C", "D", "E", "F", "G", "H", "I", "J", "K", "L", "M",
    "N", "O", "P", "Q", "R", "S", "T", "U", "V", "W", "X", "Y", "Z">>

LowerLetters ==
    {"a", "b", "c", "d", "e", "f", "g", "h", "i", "j", "k", "l", "m", "n",
    "o", "p", "q", "r", "s", "t", "u", "v", "w", "x", "y", "z"}

UpperLetters ==
    {"A", "B", "C", "D", "E", "F", "G", "H", "I", "J", "K", "L", "M", "N",
    "O", "P", "Q", "R", "S", "T", "U", "V", "W", "X", "Y", "Z"}

Digits == <<"0", "1", "2", "3", "4", "5", "6", "7", "8", "9">>

IsDigit(c) == \E i \in 1..10 : Digits[i] = c

DigitVal(c) == (CHOOSE i \in 1..10 : Digits[i] = c) - 1

\* strings.HasPrefix
HasPrefix(s, p) == Len(s) >= Len(p) /\ SubSeq(s, 1, Len(p)) = p

\* strings.Contains
Contains(s, sub) ==
    \E i \in 0..(Len(s) - Len(sub)) : SubSeq(s, i + 1, i + Len(sub)) = sub

\* strings.Count for a one-character pattern
Count(s, c) == Cardinality({i \in 1..Len(s) : s[i] = c})

\* strings.ContainsAny
ContainsAny(s, chars) == \E i \in 1..Len(s) : s[i] \in chars

\* isLetter returns true if c is a letter (a-z, A-Z)
isLetter(c) == c \in LowerLetters \cup UpperLetters

\* IsTraceMeasurement: "TRC", anything with "LOQ", anything starting with "<"
IsTraceMeasurement(str) ==
    \/ str = <<"T", "R", "C">>
    \/ Contains(str, <<"L", "O", "Q">>)
    \/ HasPrefix(str, <<"<">>)

\* IsEmptyMeasurement: "", ".", "-", anything starting with "--"
IsEmptyMeasurement(str) ==
    \/ str = <<>>
    \/ str = <<".">>
    \/ str = <<"-">>
    \/ HasPrefix(str, <<"-", "-">>)

\* IsErrorMeasurement; str[0] on the empty string is an index out of range.
\* "backtick" stands for the character U+0060.
IsErrorMeasurement(str) ==
    IF Count(str, ".") > 1 THEN [panic |-> FALSE, val |-> TRUE]
    ELSE IF ContainsAny(str, {",", "backtick", "/", "(", ")"})
    THEN [panic |-> FALSE, val |-> TRUE]
    ELSE IF Len(str) = 0 THEN [panic |-> TRUE, val |-> FALSE]
    ELSE IF isLetter(str[1]) THEN [panic |-> FALSE, val |-> TRUE]
    ELSE IF \/ str = <<"0", "<", "0", ".", "1", "0">>
            \/ HasPrefix(str, 
                 <<"t", "e", "r", "p", "i", "n", "o", "l", "e", "n", "e", ":", " ", "1", ".", "2", "2">>)
            \/ HasPrefix(str, 
                 <<"a", "-", "O", "c", "i", "m", "e", "n", "e", ":", " ", "1", ".", "0", "8">>)
    THEN [panic |-> FALSE, val |-> TRUE]
    ELSE [panic |-> FALSE, val |-> FALSE]

\* ---------------------------------------------------------------------------
\* float64: k is "fin", "nan", "+inf" or "-inf"; a finite value is n / 10^d
\* with n not divisible by 10 unless d = 0
\* ---------------------------------------------------------------------------

Fin(n, d) == [k |-> "fin", n |-> n, d |-> d]

NaN == [k |-> "nan", n |-> 0, d |-> 0]

PosInf == [k |-> "+inf", n |-> 0, d |-> 0]

NegInf == [k |-> "-inf", n |-> 0, d |-> 0]

RECURSIVE Normalize(_, _)
Normalize(n, d) ==
    IF d > 0 /\ n % 10 = 0 THEN Normalize(n \div 10, d - 1) ELSE Fin(n, d)

\* a == b on float64: NaN is equal to nothing
FloatEq(a, b) == a.k # "nan" /\ b.k # "nan" /\ a = b

\* a < 0 on float64
FloatNeg(a) == a.k = "-inf" \/ (a.k = "fin" /\ a.n < 0)

\* the value of a string of decimal digits
RECURSIVE DigitsVal(_)
DigitsVal(s) ==
    IF s = <<>> THEN 0
    ELSE 10 * DigitsVal(SubSeq(s, 1, Len(s) - 1)) + DigitVal(s[Len(s)])

\* s in lower case (letters only change)
ToLower(s) ==
    [i \in 1..Len(s) |->
        IF s[i] \in UpperLetters
        THEN CHOOSE l \in LowerLetters :
                \E j \in 1..26 : LowerSeq[j] = l /\ UpperSeq[j] = s[i]
        ELSE s[i]]

\* strconv.ParseFloat(s, 64) on texts without exponent, hexadecimal prefix or
\* underscore: [sign] digits [. digits] with a digit somewhere, or
\* [sign] inf | infinity, or nan, in any case
ParseFloat(s) ==
    LET signed == Len(s) > 0 /\ s[1] \in {"+", "-"}
        neg    == Len(s) > 0 /\ s[1] = "-"
        body   == IF signed THEN Tail(s) ELSE s
        low    == ToLower(body)
        dots   == {i \in 1..Len(body) : body[i] = "."}
        dot    == IF dots = {} THEN Len(body) + 1 ELSE CHOOSE i \in dots : TRUE
        int    == SubSeq(body, 1, dot - 1)
        frac   == SubSeq(body, dot + 1, Len(body))
        isDec  == /\ Cardinality(dots) <= 1
                  /\ Len(int) + Len(frac) >= 1
                  /\ \A i \in 1..Len(body) : i \in dots \/ IsDigit(body[i])
        mag    == DigitsVal(int \o frac)
    IN  IF low \in {<<"i", "n", "f">>,
                    <<"i", "n", "f", "i", "n", "i", "t", "y">>}
        THEN [ok |-> TRUE, val |-> IF neg THEN NegInf ELSE PosInf]
        ELSE IF ~signed /\ low = <<"n", "a", "n">>
        THEN [ok |-> TRUE, val |-> NaN]
        ELSE IF isDec
        THEN [ok |-> TRUE,
              val |-> Normalize(IF neg THEN 0 - mag ELSE mag, Len(frac))]
        ELSE [ok |-> FALSE, val |-> Fin(0, 0)]

\* ---------------------------------------------------------------------------
\* ct.Measure: the amount field with its sentinels
\* ---------------------------------------------------------------------------

\* Sentinel value for Empty, which is nil-value
measureEmptySentinel == Fin(0, 0)

\* Sentinel value for Zero
measureZeroSentinel == NaN

\* Sentinel value for Trace
measureTraceSentinel == NegInf

\* Sentinel value for Error
measureErrorSentinel == NegInf

measureSentinelize(amount) ==
    IF FloatEq(amount, Fin(0, 0)) THEN measureZeroSentinel
    ELSE IF FloatNeg(amount) THEN measureTraceSentinel
    ELSE amount

NewMeasure(amount) == measureSentinelize(amount)

NewEmptyMeasure == measureEmptySentinel

NewTraceMeasure == measureTraceSentinel

NewErrorMeasure == measureTraceSentinel

IsEmpty(m) == FloatEq(m, measureEmptySentinel)

IsTrace(m) == m.k = "-inf"

IsZero(m) == m.k = "nan"

IsEqual(m, other) == FloatEq(m, other)

\* FromString with the trace test ahead of the error test
FromStringTraceFirst(m, str) ==
    IF IsEmptyMeasurement(str)
    THEN [amount |-> measureEmptySentinel, err |-> "nil", path |-> "empty"]
    ELSE IF IsTraceMeasurement(str)
    THEN [amount |-> measureTraceSentinel, err |-> "nil", path |-> "trace"]
    ELSE IF IsErrorMeasurement(str).panic
    THEN [amount |-> m, err |-> "panic", path |-> "error"]
    ELSE IF IsErrorMeasurement(str).val
    THEN [amount |-> measureEmptySentinel, err |-> "nil", path |-> "error"]
    ELSE LET s1  == TrimPrefix(str, ",")
             s2  == TrimPrefix(s1, ">")
             s3  == TrimSuffix(s2, "%")
             res == ParseFloat(s3)
         IN  IF ~res.ok
             THEN [amount |-> m, err |-> "ParseFloat", path |-> "parse"]
             ELSE [amount |-> measureSentinelize(res.val), err |-> "nil",
                   path |-> "parse"]

\* (m *Measure) FromString(str): the new amount, the error ("panic" when the
\* call does not return), and the test that decided
FromString(m, str) ==
    IF IsEmptyMeasurement(str)
    THEN [amount |-> measureEmptySentinel, err |-> "nil", path |-> "empty"]
    ELSE IF IsErrorMeasurement(str).panic
    THEN [amount |-> m, err |-> "panic", path |-> "error"]
    ELSE IF IsErrorMeasurement(str).val
    THEN [amount |-> measureEmptySentinel, err |-> "nil", path |-> "error"]
    ELSE IF IsTraceMeasurement(str)
    THEN [amount |-> measureTraceSentinel, err |-> "nil", path |-> "trace"]
    ELSE LET s1  == TrimPrefix(str, ",")
             s2  == TrimPrefix(s1, ">")
             s3  == TrimSuffix(s2, "%")
             res == ParseFloat(s3)
         IN  IF ~res.ok
             THEN [amount |-> m, err |-> "ParseFloat", path |-> "parse"]
             ELSE [amount |-> measureSentinelize(res.val), err |-> "nil",
                   path |-> "parse"]

\* a <= b on float64: false when either side is NaN
FloatLe(a, b) ==
    IF a.k = "nan" \/ b.k = "nan" THEN FALSE
    ELSE IF a.k = "-inf" \/ b.k = "+inf" THEN TRUE
    ELSE IF a.k = "+inf" \/ b.k = "-inf" THEN FALSE
    ELSE a.n * (10 ^ b.d) <= b.n * (10 ^ a.d)

\* the decimal digits of a natural number
RECURSIVE NatDigits(_)
NatDigits(k) ==
    IF k < 10 THEN <<Digits[k + 1]>>
    ELSE NatDigits(k \div 10) \o <<Digits[(k % 10) + 1]>>

\* s padded on the left with "0" to width w
RECURSIVE PadLeft(_, _)
PadLeft(s, w) == IF Len(s) >= w THEN s ELSE PadLeft(<<"0">> \o s, w)

\* fmt.Sprintf("%f", amount): sign, integer digits, ".", six fraction digits
\* (rounded at the sixth); "+Inf", "-Inf" and "NaN" for the non-finite values
FormatF(a) ==
    IF a.k = "nan" THEN <<"N", "a", "N">>
    ELSE IF a.k = "+inf" THEN <<"+", "I", "n", "f">>
    ELSE IF a.k = "-inf" THEN <<"-", "I", "n", "f">>
    ELSE LET abs   == IF a.n < 0 THEN 0 - a.n ELSE a.n
             whole == abs \div (10 ^ a.d)
             part  == abs % (10 ^ a.d)
             micro == IF a.d <= 6 THEN part * (10 ^ (6 - a.d))
                      ELSE (part + 5 * (10 ^ (a.d - 7))) \div (10 ^ (a.d - 6))
             sign  == IF a.n < 0 THEN <<"-">> ELSE <<>>
         IN  sign \o NatDigits(whole + (micro \div 1000000)) \o <<".">>
                  \o PadLeft(NatDigits(micro % 1000000), 6)

\* Amount with the stored amount reported for a Zero measure
AmountRaw(m) ==
    IF IsEmpty(m) THEN [result |-> Fin(0, 0), trace |-> FALSE, empty |-> TRUE]
    ELSE IF IsTrace(m)
    THEN [result |-> Fin(0, 0), trace |-> TRUE, empty |-> FALSE]
    ELSE [result |-> m, trace |-> FALSE, empty |-> FALSE]

\* m.Amount(): (result, trace, empty)
Amount(m) ==
    IF IsEmpty(m) THEN [result |-> Fin(0, 0), trace |-> FALSE, empty |-> TRUE]
    ELSE IF IsZero(m)
    THEN [result |-> Fin(0, 0), trace |-> FALSE, empty |-> FALSE]
    ELSE IF IsTrace(m)
    THEN [result |-> Fin(0, 0), trace |-> TRUE, empty |-> FALSE]
    ELSE [result |-> m, trace |-> FALSE, empty |-> FALSE]

\* IsValidPercent with 100 itself rejected
IsValidPercentLt(m) ==
    IF IsZero(m) \/ IsEmpty(m) \/ IsTrace(m) THEN TRUE
    ELSE FloatLe(Fin(0, 0), m) /\ FloatLe(m, Fin(100, 0))
                               /\ ~FloatEq(m, Fin(100, 0))

\* IsValidPercent returns true if the measure is a valid percent
IsValidPercent(m) ==
    IF IsZero(m) \/ IsEmpty(m) \/ IsTrace(m) THEN TRUE
    ELSE FloatLe(Fin(0, 0), m) /\ FloatLe(m, Fin(100, 0))

\* AsSQL with a Trace measure written as a number
AsSQLTraceNumber(m) ==
    IF IsEmpty(m) THEN <<"N", "U", "L", "L">>
    ELSE IF IsZero(m) THEN <<"0">>
    ELSE FormatF(m)

\* m.AsSQL()
AsSQL(m) ==
    IF IsEmpty(m) \/ IsTrace(m) THEN <<"N", "U", "L", "L">>
    ELSE IF IsZero(m) THEN <<"0">>
    ELSE FormatF(m)

\* m.AsCSV()
AsCSV(m) ==
    IF IsEmpty(m) \/ IsTrace(m) THEN <<>>
    ELSE IF IsZero(m) THEN <<"0">>
    ELSE FormatF(m)

\* m.MarshalJSON(): the bytes; the error is always nil
MarshalJSON(m) ==
    IF IsEmpty(m) THEN <<>>
    ELSE IF IsZero(m) THEN <<"0">>
    ELSE IF IsTrace(m) THEN <<"<", "0", ".", "0", "1">>
    ELSE FormatF(m)

\* t as a JSON string literal
Quoted(t) == <<"\"">> \o t \o <<"\"">>

\* json.Unmarshal(b, &str) on bytes without white space or escape sequences:
\* a string literal decodes to the characters between its quotes
JsonString(b) ==
    LET inner == SubSeq(b, 2, Len(b) - 1)
    IN  IF /\ Len(b) >= 2
           /\ b[1] = "\""
           /\ b[Len(b)] = "\""
           /\ ~ContainsAny(inner, {"\"", "\\"})
        THEN [ok |-> TRUE, str |-> inner]
        ELSE [ok |-> FALSE, str |-> <<>>]

\* json.Unmarshal(b, &val) on bytes without white space or exponent: the
\* number literal -? (0 | [1-9][0-9]*) (. [0-9]+)?, converted by ParseFloat
JsonNumber(b) ==
    LET body == IF Len(b) > 0 /\ b[1] = "-" THEN Tail(b) ELSE b
        dots == {i \in 1..Len(body) : body[i] = "."}
        dot  == IF dots = {} THEN Len(body) + 1 ELSE CHOOSE i \in dots : TRUE
        int  == SubSeq(body, 1, dot - 1)
        frac == SubSeq(body, dot + 1, Len(body))
    IN  IF /\ Cardinality(dots) <= 1
           /\ \A i \in 1..Len(body) : i \in dots \/ IsDigit(body[i])
           /\ Len(int) >= 1
           /\ (Len(int) > 1 => int[1] # "0")
           /\ (dots # {} => Len(frac) >= 1)
        THEN [ok |-> TRUE, val |-> ParseFloat(b).val]
        ELSE [ok |-> FALSE, val |-> Fin(0, 0)]

\* (m *Measure) UnmarshalJSON(b): the new amount, the error, and the branch
\* taken ("null", "string", "number" or "invalid")
UnmarshalJSON(m, b) ==
    IF b = <<"n", "u", "l", "l">>
    THEN [amount |-> measureEmptySentinel, err |-> "nil", path |-> "null"]
    ELSE IF JsonString(b).ok
    THEN [amount |-> FromString(m, JsonString(b).str).amount,
          err    |-> FromString(m, JsonString(b).str).err,
          path   |-> "string"]
    ELSE IF JsonNumber(b).ok
    THEN [amount |-> measureSentinelize(JsonNumber(b).val), err |-> "nil",
          path |-> "number"]
    ELSE [amount |-> m, err |-> "failed to unmarshal measure",
          path |-> "invalid"]

\* ---------------------------------------------------------------------------
\* ct.FetchBrands
\* ---------------------------------------------------------------------------

\* the JSON value of the measurement field of a record: the string "45.2%",
\* the string "<LOQ", the number 101, null and the number 0 in turn for the
\* records of RecName, the string ">>5" for the malformed record
FieldJSON(rec) ==
    IF rec = MalformedRec THEN Quoted(<<">", ">", "5">>)
    ELSE LET i == CHOOSE k \in 1..Len(RecName) : RecName[k] = rec
         IN  <<Quoted(<<"4", "5", ".", "2", "%">>),
               Quoted(<<"<", "L", "O", "Q">>),
               <<"1", "0", "1">>,
               <<"n", "u", "l", "l">>,
               <<"0">>>>[((i - 1) % 5) + 1]

\* the Measure a record's field decodes to, with the error of UnmarshalJSON
FieldMeasure(rec) == UnmarshalJSON(measureEmptySentinel, FieldJSON(rec))

\* the array syntax: "[" rec ("," rec)* "]" or "[" "]"
WellFormed(t) ==
    LET inner == SubSeq(t, 2, Len(t) - 1)
    IN  /\ Len(t) >= 2
        /\ t[1] = "["
        /\ t[Len(t)] = "]"
        /\ \/ inner = <<>>
           \/ /\ Len(inner) % 2 = 1
              /\ \A i \in 1..Len(inner) :
                    IF i % 2 = 1 THEN inner[i] \in RecSet \cup {MalformedRec}
                                 ELSE inner[i] = ","

\* json.Unmarshal with a record skipped when one of its fields does not decode
DecodeBrandsSkip(bytes) ==
    LET t    == NoSpace(bytes)
        recs == OddElems(SubSeq(t, 2, Len(t) - 1))
    IN  IF ~WellFormed(t) THEN [ok |-> FALSE, recs |-> <<>>, err |-> "syntax"]
        ELSE [ok |-> TRUE, err |-> "nil",
              recs |-> SelectSeq(recs,
                          LAMBDA r : FieldMeasure(r).err = "nil")]

\* json.Unmarshal(bytes, &[]Brand): the array must be well formed and
\* Measure.UnmarshalJSON must return nil for every measurement field; err is
\* the cause of a failure, "syntax" or "measure"
DecodeBrands(bytes) ==
    LET t    == NoSpace(bytes)
        recs == OddElems(SubSeq(t, 2, Len(t) - 1))
    IN  IF ~WellFormed(t) THEN [ok |-> FALSE, recs |-> <<>>, err |-> "syntax"]
        ELSE IF \E i \in 1..Len(recs) : FieldMeasure(recs[i]).err # "nil"
        THEN [ok |-> FALSE, recs |-> <<>>, err |-> "measure"]
        ELSE [ok |-> TRUE, recs |-> recs, err |-> "nil"]

\* the maxCacheAge arguments tried (0 disables the age check)
MaxAges == 0..2

\* the page body as streamed to the cache file: brackets stripped
StripBrackets(body) ==
    TrimSuffix(TrimPrefix(TrimSpace(body), "["), "]")

\* the deferred function with the os.Remove on every path
DeferredCloseRemove(file, delete) == NoFile

\* the deferred function without the os.Remove
DeferredCloseKeep(file, delete) == file

\* the deferred function: cacheFile.Close(), then os.Remove unless preserved.
\* Both results are discarded by the code; closing and removing the file the
\* call itself created are taken to succeed.
DeferredClose(file, delete) == IF delete THEN NoFile ELSE file

\* the error of one page request, "nil" when the batch was decoded
PageError(resp) ==
    IF resp.doErr THEN "transport"
    ELSE IF resp.readErr THEN "read body"
    ELSE IF resp.status # 200 THEN "HTTP status"
    ELSE IF ~DecodeBrands(resp.body).ok THEN "failed to unmarshal result"
    ELSE "nil"

\* the cache check with its result ignored: always fetch from the API
AfterCacheCheckRefetch(chkErr, dec) ==
    [pc |-> "make", ret |-> "none", err |-> "nil", brands |-> <<>>]

\* the cache check with the error of CheckCacheFile returned to the caller
AfterCacheCheckPropagate(chkErr, dec) ==
    IF chkErr # "nil"
    THEN [pc |-> "idle", ret |-> "err", err |-> chkErr, brands |-> <<>>]
    ELSE IF dec.ok
    THEN [pc |-> "idle", ret |-> "ok", err |-> "nil", brands |-> dec.recs]
    ELSE [pc |-> "make", ret |-> "none", err |-> "nil", brands |-> <<>>]

\* what FetchBrands does with the outcome of the cache check: return the
\* decoded brands, or go on to fetch from the API (ct.go 116-124)
AfterCacheCheck(chkErr, dec) ==
    IF chkErr = "nil" /\ dec.ok
    THEN [pc |-> "idle", ret |-> "ok", err |-> "nil", brands |-> dec.recs]
    ELSE [pc |-> "make", ret |-> "none", err |-> "nil", brands |-> <<>>]

\* the loop test off by one: a full batch ends the loop too
LastBatchLe(batch) == Len(batch) <= batchLimit

\* the loop ends after a batch shorter than the limit
LastBatch(batch) == Len(batch) < batchLimit

\* the same page requested again
NextOffsetSame(off) == off

\* offset += batchLimit
NextOffset(off) == off + batchLimit

\* no call of FetchBrands made yet, the artifact on disk is file
FetchStartOn(file) ==
    /\ now = 0
    /\ cache = file
    /\ cacheMTime = 0
    /\ sessions = 0
    /\ pc = "idle"
    /\ maxCacheAge = 0
    /\ brands = <<>>
    /\ offset = 0
    /\ firstLoop = TRUE
    /\ deleteCacheFile = FALSE
    /\ handle = "nil"
    /\ terminal = "none"
    /\ ret = "none"
    /\ retBrands = <<>>
    /\ retErr = "nil"
    /\ cacheErr = "none"
    /\ cacheBytes = <<>>
    /\ cacheBefore = NoFile
    /\ requests = <<>>
    /\ failedAt = 0
    /\ writeFailed = FALSE
    /\ closes = 0
    /\ decodeErr = "nil"

\* no call of FetchBrands made yet, no artifact on disk
FetchStart == FetchStartOn(NoFile)

\* two zero-value Measures, no operation applied yet
MeasureStart ==
    /\ ms = <<measureEmptySentinel, measureEmptySentinel>>
    /\ merr = "nil"
    /\ mop = "none"
    /\ mpath = "none"
    /\ mjson = <<>>
    /\ marg = Fin(0, 0)

\* the remote collections tried: the first n records, all of them sound or
\* one of them malformed
Remotes ==
    {SubSeq(RecName, 1, n) : n \in 0..MaxN}
    \cup UNION {{[SubSeq(RecName, 1, n) EXCEPT ![i] = MalformedRec] :
                    i \in 1..n} : n \in 1..MaxN}

\* primeData does not run
PrimeOff ==
    /\ ppc = "off"
    /\ csv = NoFile
    /\ dbRows = <<>>
    /\ perr = "nil"
    /\ steps = <<>>

\* CleanBrands not called, no slice
CleanStart ==
    /\ bs = <<>>
    /\ cleaned = <<>>
    /\ cop = "none"

Init ==
    /\ remote \in Remotes
    /\ FetchStart
    /\ MeasureStart
    /\ CleanStart
    /\ PrimeOff
    /\ mtext = <<>>

\* time passes between two calls (a call is short against the unit of age)
Tick ==
    /\ pc = "idle"
    /\ now < MaxTime
    /\ now' = now + 1
    /\ UNCHANGED <<remote, cache, cacheMTime, sessions, pc, maxCacheAge,
                   brands, offset, firstLoop, deleteCacheFile, handle,
                   terminal, ret, retBrands, retErr, cacheErr, cacheBytes,
                   cacheBefore, requests, failedAt, writeFailed, closes,
                   decodeErr>>
    /\ UNCHANGED <<measureVars, cleanVars, primeVars>>

\* FetchBrands is called: the cache check (ct.go 114-124)
CheckCache(age, readOk) ==
    /\ pc = "idle"
    /\ sessions < MaxSessions
    /\ LET chk == CheckCacheFile(cache, cacheMTime, now, age, readOk)
           dec == DecodeBrands(chk.bytes)
           out == AfterCacheCheck(chk.err, dec)
       IN  /\ cacheErr' = chk.err
           /\ cacheBytes' = chk.bytes
           /\ pc' = out.pc
           /\ ret' = out.ret
           /\ retErr' = out.err
           /\ retBrands' = out.brands
    /\ sessions' = sessions + 1
    /\ maxCacheAge' = age
    /\ cacheBefore' = cache
    /\ brands' = <<>>
    /\ offset' = 0
    /\ firstLoop' = TRUE
    /\ deleteCacheFile' = FALSE
    /\ handle' = "nil"
    /\ terminal' = "none"
    /\ requests' = <<>>
    /\ failedAt' = 0
    /\ writeFailed' = FALSE
    /\ closes' = 0
    /\ decodeErr' = "nil"
    /\ UNCHANGED <<remote, now, cache, cacheMTime>>
    /\ UNCHANGED <<measureVars, cleanVars, primeVars>>

\* the cache file is created and "[" is written (ct.go 126-144)
MakeCache(createOk, wOpen) ==
    /\ pc = "make"
    /\ LET mk == MakeCacheFile(cache, createOk)
       IN  IF mk.err # "nil"
           THEN /\ pc' = "idle"
                /\ ret' = "err"
                /\ retErr' = "failed to create JSON cache file"
                /\ UNCHANGED <<cache, cacheMTime, handle, deleteCacheFile,
                               writeFailed>>
           ELSE /\ pc' = "loop"
                /\ cache' = FileWrite(mk.file, <<"[">>, wOpen)
                /\ cacheMTime' = now
                /\ handle' = "open"
                /\ deleteCacheFile' = TRUE
                /\ writeFailed' = ~wOpen
                /\ UNCHANGED <<ret, retErr>>
    /\ UNCHANGED <<remote, now, sessions, maxCacheAge, brands, offset,
                   firstLoop, terminal, retBrands, cacheErr, cacheBytes,
                   cacheBefore, requests, failedAt, closes, decodeErr>>
    /\ UNCHANGED <<measureVars, cleanVars, primeVars>>

\* one iteration of the page loop, with what follows the loop when it is the
\* last one (ct.go 149-223)
PageRequest(resp, wComma, wBody, wClose) ==
    /\ pc = "loop"
    /\ resp \in Responses(remote, offset, batchLimit)
    /\ requests' = Append(requests, offset)
    /\ LET err         == PageError(resp)
           brandsBatch == DecodeBrands(resp.body).recs
           all         == brands \o brandsBatch
           okComma     == ~writeFailed /\ wComma
           okBody      == (firstLoop \/ okComma) /\ ~writeFailed /\ wBody
           okClose     == okBody /\ wClose
           withComma   == IF firstLoop THEN cache
                          ELSE FileWrite(cache, <<",">>, okComma)
           withBody    == FileWrite(withComma, StripBrackets(resp.body), okBody)
       IN  IF err # "nil"
           THEN \* return nil, err: the deferred function removes the file
                /\ pc' = "idle"
                /\ ret' = "err"
                /\ retErr' = err
                /\ retBrands' = <<>>
                /\ failedAt' = Len(requests) + 1
                /\ decodeErr' = IF err = "failed to unmarshal result"
                                THEN DecodeBrands(resp.body).err ELSE "nil"
                /\ cache' = DeferredClose(cache, deleteCacheFile)
                /\ cacheMTime' = IF deleteCacheFile THEN 0 ELSE cacheMTime
                /\ handle' = "closed"
                /\ closes' = closes + 1
                /\ terminal' = IF deleteCacheFile THEN "abort" ELSE "commit"
                /\ UNCHANGED <<brands, offset, firstLoop, deleteCacheFile,
                               writeFailed>>
           ELSE IF LastBatch(brandsBatch)
           THEN \* break; keep the file, write "]", return brands
                /\ pc' = "idle"
                /\ ret' = "ok"
                /\ retBrands' = all
                /\ brands' = all
                /\ firstLoop' = FALSE
                /\ deleteCacheFile' = FALSE
                /\ cache' = DeferredClose(FileWrite(withBody, <<"]">>, okClose),
                                          FALSE)
                /\ cacheMTime' = now
                /\ handle' = "closed"
                /\ closes' = closes + 1
                /\ terminal' = "commit"
                /\ writeFailed' = ~okClose
                /\ UNCHANGED <<offset, retErr, failedAt, decodeErr>>
           ELSE \* next batch
                /\ brands' = all
                /\ firstLoop' = FALSE
                /\ cache' = withBody
                /\ cacheMTime' = now
                /\ offset' = NextOffset(offset)
                /\ writeFailed' = ~okBody
                /\ UNCHANGED <<pc, ret, retErr, retBrands, failedAt,
                               deleteCacheFile, handle, terminal, closes,
                               decodeErr>>
    /\ UNCHANGED <<remote, now, sessions, maxCacheAge, cacheErr, cacheBytes,
                   cacheBefore>>
    /\ UNCHANGED <<measureVars, cleanVars, primeVars>>

FetchNext ==
    \/ Tick
    \/ \E age \in MaxAges, readOk \in BOOLEAN : CheckCache(age, readOk)
    \/ \E createOk \in BOOLEAN, wOpen \in BOOLEAN : MakeCache(createOk, wOpen)
    \/ \E resp \in Responses(remote, offset, batchLimit),
          wComma \in BOOLEAN, wBody \in BOOLEAN, wClose \in BOOLEAN :
            PageRequest(resp, wComma, wBody, wClose)

Spec == Init /\ [][FetchNext]_vars

\* ---------------------------------------------------------------------------
\* Properties of FetchBrands and the cache
\* ---------------------------------------------------------------------------

\* the call in progress has returned
Returned == pc = "idle" /\ ret # "none"

\* the call went to the network: it issued at least one page request
WentToNetwork == requests # <<>>

\* C1: a session that goes to the network and fails on a page request returns
\* an error and no records, and no cache artifact exists afterwards.
C1_FailedPageLeavesNoArtifact ==
    (Returned /\ failedAt >= 1) =>
        /\ ret = "err"
        /\ retErr # "nil"
        /\ retBrands = <<>>
        /\ cache = NoFile

\* a session failed on its second page request or later, after an earlier page
\* had been streamed, with an artifact on disk when it began
C1_Witness ==
    /\ Returned
    /\ failedAt >= 2
    /\ cacheBefore # NoFile
    /\ ret = "err"
    /\ cache = NoFile

\* C2: after a successful network session (all of whose writes succeeded) the
\* artifact is "[", the records with one comma between neighbours, "]", and
\* decodes to the records the session returned.
C2_ArtifactWellFormed ==
    (Returned /\ ret = "ok" /\ WentToNetwork /\ ~writeFailed) =>
        /\ cache = EncodeBrands(retBrands)
        /\ DecodeBrands(cache).ok
        /\ DecodeBrands(cache).recs = retBrands

\* C3: against a collection of N records a session issues at most
\* N \div batchLimit + 1 page requests; a session that returns records issued
\* exactly that many, returns exactly the N records, and its last page was
\* shorter than batchLimit.
C3_Pagination ==
    /\ Len(requests) <= Len(remote) \div batchLimit + 1
    /\ (Returned /\ ret = "ok" /\ WentToNetwork) =>
          /\ Len(requests) = Len(remote) \div batchLimit + 1
          /\ retBrands = remote
          /\ Len(remote) - requests[Len(requests)] < batchLimit
          /\ \A i \in 1..(Len(requests) - 1) :
                Len(remote) - requests[i] >= batchLimit

\* a collection of k * batchLimit records, k >= 1, fetched with k + 1 requests
C3_Witness ==
    /\ Returned
    /\ ret = "ok"
    /\ Len(remote) >= batchLimit
    /\ Len(remote) % batchLimit = 0
    /\ Len(requests) = Len(remote) \div batchLimit + 1
    /\ retBrands = remote

\* C4: when a write to the cache file fails, the session fails and the
\* artifact is deleted.
C4_WriteFailureAborts ==
    (Returned /\ writeFailed) => (ret = "err" /\ cache = NoFile)

\* the cache check gave bytes that decode as a record collection
CacheValid == cacheErr = "nil" /\ DecodeBrands(cacheBytes).ok

\* C5: when CheckCacheFile returns bytes that decode as a record collection,
\* FetchBrands returns those records at once: no page request, no write
\* handle, the artifact unchanged.
C5_CacheHitShortCircuits ==
    CacheValid =>
        /\ Returned
        /\ ret = "ok"
        /\ EncodeBrands(retBrands) = NoSpace(cacheBefore)
        /\ requests = <<>>
        /\ handle = "nil"
        /\ cache = cacheBefore

\* a later call served from the artifact an earlier call committed
C5_Witness ==
    /\ CacheValid
    /\ sessions >= 2
    /\ Len(retBrands) >= 1
    /\ cache = cacheBefore

\* the artifact is stale for maxAge at this clock
Stale(maxAge) == maxAge # 0 /\ now - cacheMTime > maxAge

\* a step that calls FetchBrands, and so CheckCacheFile
Checks == sessions' # sessions

\* C6, as stated: miss when there is no artifact, stale when maxAge is not 0
\* and the age strictly exceeds it, otherwise the full contents.
C6_AsStated ==
    [][Checks =>
        /\ (cache = NoFile) => cacheErr' = "cache file not found"
        /\ (cache # NoFile /\ Stale(maxCacheAge')) =>
               cacheErr' = "cache file is too old"
        /\ (cache # NoFile /\ ~Stale(maxCacheAge')) =>
               (cacheErr' = "nil" /\ cacheBytes' = cache)
      ]_vars

\* C6, amended: ... otherwise the full contents, or a read error when the
\* artifact cannot be read.
C6_CheckCacheFile ==
    [][Checks =>
        /\ (cache = NoFile) => cacheErr' = "cache file not found"
        /\ (cache # NoFile /\ Stale(maxCacheAge')) =>
               cacheErr' = "cache file is too old"
        /\ (cache # NoFile /\ ~Stale(maxCacheAge')) =>
               \/ cacheErr' = "nil" /\ cacheBytes' = cache
               \/ cacheErr' = "cache file read error"
        /\ (cache # NoFile /\ maxCacheAge' = 0) =>
               cacheErr' \in {"nil", "cache file read error"}
      ]_vars

\* maxAge = 2 units: an artifact aged 3 units has just been reported stale
C6_Witness ==
    /\ pc = "make"
    /\ cache # NoFile
    /\ maxCacheAge = 2
    /\ now - cacheMTime = 3
    /\ cacheErr = "cache file is too old"

\* the cache check of this call failed softly: miss, stale or undecodable
SoftFailure ==
    \/ cacheErr \in {"cache file not found", "cache file is too old"}
    \/ cacheErr = "nil" /\ ~DecodeBrands(cacheBytes).ok

CacheErrors ==
    {"cache file not found", "cache file is too old", "cache file read error"}

\* C7, as stated: a soft failure is never returned as an error, the session
\* proceeds to a network fetch that overwrites the artifact.
C7_AsStated ==
    (Returned /\ SoftFailure) =>
        /\ retErr \notin CacheErrors
        /\ WentToNetwork
        /\ handle # "nil"

\* C7, amended: a soft failure is never returned as an error; the session goes
\* on to create the cache file, which truncates the artifact, and then to the
\* page requests, unless creating the file fails, which is the error returned.
C7_SoftFailureFallsThrough ==
    SoftFailure =>
        /\ retErr \notin CacheErrors
        /\ pc = "idle" =>
              \/ /\ ret = "err"
                 /\ retErr = "failed to create JSON cache file"
                 /\ requests = <<>>
                 /\ cache = cacheBefore
              \/ /\ WentToNetwork
                 /\ handle = "closed"
                 /\ (ret = "ok") => cache # NoFile
                 /\ (ret = "err") => cache = NoFile
        /\ pc = "loop" => (handle = "open" /\ cache # NoFile /\ cacheMTime = now)

\* an artifact that did not decode was replaced by a network fetch
C7_Witness ==
    /\ Returned
    /\ cacheErr = "nil"
    /\ ~DecodeBrands(cacheBytes).ok
    /\ WentToNetwork
    /\ ret = "ok"
    /\ cache # cacheBefore

\* ---------------------------------------------------------------------------
\* ct.Measure: construction and parsing
\* ---------------------------------------------------------------------------

\* the float64 amounts given to NewMeasure
Floats ==
    {Fin(0, 0), Fin(-1, 0), Fin(1, 0), Fin(5, 1), Fin(50, 0), Fin(100, 0),
     Fin(101, 0), NaN, PosInf, NegInf}

MeasureInit ==
    /\ remote = <<>>
    /\ FetchStart
    /\ MeasureStart
    /\ CleanStart
    /\ PrimeOff
    /\ mtext \in Texts

\* m := NewMeasure(amount); other := m
NewMeasureStep(amount) ==
    /\ mop = "none"
    /\ ms' = <<NewMeasure(amount), NewMeasure(amount)>>
    /\ mop' = "NewMeasure"
    /\ marg' = amount
    /\ UNCHANGED <<mtext, merr, mpath, mjson>>
    /\ UNCHANGED <<fetchVars, cleanVars, primeVars>>

\* m := NewEmptyMeasure(); other := m
NewEmptyMeasureStep ==
    /\ mop = "none"
    /\ ms' = <<NewEmptyMeasure, NewEmptyMeasure>>
    /\ mop' = "NewEmptyMeasure"
    /\ UNCHANGED <<mtext, merr, mpath, mjson, marg>>
    /\ UNCHANGED <<fetchVars, cleanVars, primeVars>>

\* m := NewTraceMeasure(); other := m
NewTraceMeasureStep ==
    /\ mop = "none"
    /\ ms' = <<NewTraceMeasure, NewTraceMeasure>>
    /\ mop' = "NewTraceMeasure"
    /\ UNCHANGED <<mtext, merr, mpath, mjson, marg>>
    /\ UNCHANGED <<fetchVars, cleanVars, primeVars>>

\* m := NewErrorMeasure(); other := m
NewErrorMeasureStep ==
    /\ mop = "none"
    /\ ms' = <<NewErrorMeasure, NewErrorMeasure>>
    /\ mop' = "NewErrorMeasure"
    /\ UNCHANGED <<mtext, merr, mpath, mjson, marg>>
    /\ UNCHANGED <<fetchVars, cleanVars, primeVars>>

\* a constructor has run and nothing else
Constructed ==
    mop \in {"NewMeasure", "NewEmptyMeasure", "NewTraceMeasure",
             "NewErrorMeasure"}

\* m.FromString(mtext); other keeps the constructed value
FromStringStep ==
    /\ Constructed
    /\ LET r == FromString(ms[1], mtext)
       IN  /\ ms' = <<r.amount, ms[2]>>
           /\ merr' = r.err
           /\ mpath' = r.path
    /\ mop' = "FromString"
    /\ UNCHANGED <<mtext, mjson, marg>>
    /\ UNCHANGED <<fetchVars, cleanVars, primeVars>>

\* the JSON values a feed can carry for the text t: the string literal, the
\* bare text (a number literal when t is one), and null
JsonPayloads(t) == {Quoted(t), t, <<"n", "u", "l", "l">>}

\* m.UnmarshalJSON(b) on a constructed Measure; other keeps the prior value
UnmarshalJSONStep(b) ==
    /\ Constructed
    /\ LET r == UnmarshalJSON(ms[1], b)
       IN  /\ ms' = <<r.amount, ms[2]>>
           /\ merr' = r.err
           /\ mpath' = r.path
    /\ mjson' = b
    /\ mop' = "UnmarshalJSON"
    /\ UNCHANGED <<mtext, marg>>
    /\ UNCHANGED <<fetchVars, cleanVars, primeVars>>

\* b, _ := m.MarshalJSON() on a constructed or parsed Measure
MarshalJSONStep ==
    /\ Constructed \/ mop = "FromString"
    /\ mjson' = MarshalJSON(ms[1])
    /\ merr' = "nil"
    /\ mop' = "MarshalJSON"
    /\ UNCHANGED <<ms, mtext, mpath, marg>>
    /\ UNCHANGED <<fetchVars, cleanVars, primeVars>>

\* var other Measure; other.UnmarshalJSON(b) on the bytes m.MarshalJSON() gave
RoundTripStep ==
    /\ mop = "MarshalJSON"
    /\ LET r == UnmarshalJSON(measureEmptySentinel, mjson)
       IN  /\ ms' = <<ms[1], r.amount>>
           /\ merr' = r.err
           /\ mpath' = r.path
    /\ mop' = "RoundTrip"
    /\ UNCHANGED <<mtext, mjson, marg>>
    /\ UNCHANGED <<fetchVars, cleanVars, primeVars>>


\* IsEmptyMeasurement(mtext), IsErrorMeasurement(mtext) and
\* IsTraceMeasurement(mtext) called on their own: merr is "panic" when one of
\* them does not return, mpath names the first that returned true
ClassifyStep ==
    /\ mop = "none"
    /\ merr' = IF IsErrorMeasurement(mtext).panic THEN "panic" ELSE "nil"
    /\ mpath' = IF IsEmptyMeasurement(mtext) THEN "empty"
                ELSE IF IsErrorMeasurement(mtext).val THEN "error"
                ELSE IF IsTraceMeasurement(mtext) THEN "trace"
                ELSE "none"
    /\ mop' = "Classify"
    /\ UNCHANGED <<ms, mtext, mjson, marg>>
    /\ UNCHANGED <<fetchVars, cleanVars, primeVars>>

MeasureNext ==
    \/ \E amount \in Floats : NewMeasureStep(amount)
    \/ NewEmptyMeasureStep
    \/ NewTraceMeasureStep
    \/ NewErrorMeasureStep
    \/ FromStringStep
    \/ \E b \in JsonPayloads(mtext) : UnmarshalJSONStep(b)
    \/ MarshalJSONStep
    \/ RoundTripStep
    \/ ClassifyStep

MeasureSpec == MeasureInit /\ [][MeasureNext]_vars

\* ---------------------------------------------------------------------------
\* Properties of Measure
\* ---------------------------------------------------------------------------

\* the error pattern: more than one ".", one of , ` / ( ), a leading letter,
\* or a known bad literal
MatchesErrorPattern(t) ==
    \/ Count(t, ".") > 1
    \/ \E i \in 1..Len(t) : t[i] \in {",", "backtick", "/", "(", ")"}
    \/ Len(t) > 0 /\ isLetter(t[1])
    \/ t = <<"0", "<", "0", ".", "1", "0">>

\* the empty pattern: "", ".", "-", or a "--" prefix
MatchesEmptyPattern(t) ==
    \/ t \in {<<>>, <<".">>, <<"-">>}
    \/ Len(t) >= 2 /\ t[1] = "-" /\ t[2] = "-"

\* the trace pattern: "TRC", "LOQ" somewhere, or a "<" prefix
MatchesTracePattern(t) ==
    \/ t = <<"T", "R", "C">>
    \/ \E i \in 1..(Len(t) - 2) : <<t[i], t[i + 1], t[i + 2]>> = <<"L", "O", "Q">>
    \/ Len(t) > 0 /\ t[1] = "<"

Parsed == mop = "FromString"

C9_TraceSymbols ==
    (Parsed /\ MatchesTracePattern(mtext)) => IsTrace(ms[1])

\* the state of a Measure
StateOf(m) ==
    IF IsEmpty(m) THEN "Empty"
    ELSE IF IsZero(m) THEN "Zero"
    ELSE IF IsTrace(m) THEN "Trace"
    ELSE "Numeric"

\* C10: a.IsEqual(b) iff both Empty, both Zero, both Trace, or both Numeric
\* with the same magnitude.
C10_IsEqualStateAware ==
    (mop # "none") =>
        (IsEqual(ms[1], ms[2]) <=>
            /\ StateOf(ms[1]) = StateOf(ms[2])
            /\ StateOf(ms[1]) = "Numeric" => ms[1] = ms[2])

\* C11: UnmarshalJSON applied to the bytes of m.MarshalJSON() succeeds and
\* yields a Measure in the state of m, with the magnitude of m when Numeric.
C11_JSONRoundTrip ==
    (mop = "RoundTrip") =>
        /\ merr = "nil"
        /\ StateOf(ms[2]) = StateOf(ms[1])
        /\ StateOf(ms[1]) = "Numeric" => ms[2] = ms[1]

\* the magnitude v satisfies 0 <= v <= 100
InPercentRange(m) ==
    m.k = "fin" /\ m.n >= 0 /\ m.n <= 100 * (10 ^ m.d)

\* C14: IsValidPercent() is true for every Empty, Zero and Trace measure, and
\* for a Numeric measure exactly when its magnitude lies in 0..100, the
\* bound 100 included.
C14_IsValidPercent ==
    (mop # "none") =>
        \A i \in 1..2 :
            IsValidPercent(ms[i]) <=>
                \/ StateOf(ms[i]) \in {"Empty", "Zero", "Trace"}
                \/ InPercentRange(ms[i])

\* "100" was parsed into a Measure built as NewMeasure(101): the first is a
\* valid percent, the second is not
C14_Witness ==
    /\ Parsed
    /\ mtext = <<"1", "0", "0">>
    /\ ms[2] = Fin(101, 0)
    /\ IsValidPercent(ms[1])
    /\ ~IsValidPercent(ms[2])

\* the serialized forms of the four texts the specification lists
SerializedAs(t, sql) == (Parsed /\ mtext = t) => AsSQL(ms[1]) = sql

\* C15: AsSQL and AsCSV depend on the state only: Empty and Trace give NULL
\* and the empty text, Zero gives "0" in both, Numeric gives the decimal text
\* of the magnitude in both; "<LOQ", "", "0" and "45.2%" are stored as NULL,
\* NULL, "0" and "45.200000".
C15_Serialization ==
    /\ (mop # "none") =>
        \A i \in 1..2 :
            /\ StateOf(ms[i]) \in {"Empty", "Trace"} =>
                    /\ AsSQL(ms[i]) = <<"N", "U", "L", "L">>
                    /\ AsCSV(ms[i]) = <<>>
            /\ StateOf(ms[i]) = "Zero" =>
                    /\ AsSQL(ms[i]) = <<"0">>
                    /\ AsCSV(ms[i]) = <<"0">>
            /\ StateOf(ms[i]) = "Numeric" =>
                    /\ AsSQL(ms[i]) = AsCSV(ms[i])
                    /\ ParseFloat(AsSQL(ms[i])).ok
                    /\ ParseFloat(AsSQL(ms[i])).val = ms[i]
    /\ SerializedAs(<<"<", "L", "O", "Q">>, <<"N", "U", "L", "L">>)
    /\ SerializedAs(<<>>, <<"N", "U", "L", "L">>)
    /\ SerializedAs(<<"0">>, <<"0">>)
    /\ SerializedAs(<<"4", "5", ".", "2", "%">>,
                    <<"4", "5", ".", "2", "0", "0", "0", "0", "0">>)

\* "45.2%" was parsed into a Trace measure: the first is stored as
\* "45.200000", the second as NULL
C15_Witness ==
    /\ Parsed
    /\ mtext = <<"4", "5", ".", "2", "%">>
    /\ AsCSV(ms[1]) = <<"4", "5", ".", "2", "0", "0", "0", "0", "0">>
    /\ IsTrace(ms[2])
    /\ AsSQL(ms[2]) = <<"N", "U", "L", "L">>

\* C16: NewMeasure(v) yields Zero when v == 0, Trace when v < 0 and Numeric(v)
\* otherwise; no Measure holds a negative finite magnitude, and a Numeric
\* measure has a magnitude above 0.
C16_NewMeasureRule ==
    /\ (mop = "NewMeasure") =>
            IF marg = Fin(0, 0) THEN StateOf(ms[1]) = "Zero"
            ELSE IF marg.k = "-inf" \/ (marg.k = "fin" /\ marg.n < 0)
            THEN StateOf(ms[1]) = "Trace"
            ELSE StateOf(ms[1]) = "Numeric" /\ ms[1] = marg
    /\ \A i \in 1..2 :
            /\ ~(ms[i].k = "fin" /\ ms[i].n < 0)
            /\ StateOf(ms[i]) = "Numeric" =>
                    ms[i].k = "+inf" \/ (ms[i].k = "fin" /\ ms[i].n > 0)

\* the fourth state as Amount() reports it: neither flag, and a result
\* other than 0
NumericByAmount(m) ==
    /\ ~Amount(m).trace
    /\ ~Amount(m).empty
    /\ Amount(m).result # Fin(0, 0)

\* how many of the four states m is in
StatesHeld(m) ==
    Cardinality({p \in {"Empty", "Zero", "Trace", "Numeric"} :
        \/ p = "Empty" /\ IsEmpty(m)
        \/ p = "Zero" /\ IsZero(m)
        \/ p = "Trace" /\ IsTrace(m)
        \/ p = "Numeric" /\ NumericByAmount(m)})

\* C19: a Measure is in exactly one of the four states, Amount() reports 0 in
\* the three states that are not Numeric, and a FromString call that returns
\* a parse error leaves the state and the magnitude as they were.
C19_OneStateNoPartialMutation ==
    /\ \A i \in 1..2 :
            /\ StatesHeld(ms[i]) = 1
            /\ ~NumericByAmount(ms[i]) => Amount(ms[i]).result = Fin(0, 0)
    /\ (mop \in {"FromString", "UnmarshalJSON"} /\ merr # "nil") =>
            ms[1] = ms[2]

\* a text that is not a number was given to FromString on a Numeric measure,
\* which is Numeric with the same magnitude after the call
C19_Witness ==
    /\ Parsed
    /\ merr = "ParseFloat"
    /\ NumericByAmount(ms[2])
    /\ ms[1] = ms[2]

\* t with one leading ">" and one trailing "%" removed
Stripped(t) ==
    LET a == IF Len(t) > 0 /\ t[1] = ">" THEN Tail(t) ELSE t
    IN  IF Len(a) > 0 /\ a[Len(a)] = "%" THEN SubSeq(a, 1, Len(a) - 1) ELSE a

\* t is a finite decimal number: an optional sign, digits with at most one
\* ".", and a digit somewhere
FiniteDecimal(t) ==
    LET body == IF Len(t) > 0 /\ t[1] \in {"+", "-"} THEN Tail(t) ELSE t
    IN  /\ \A i \in 1..Len(body) : IsDigit(body[i]) \/ body[i] = "."
        /\ Count(body, ".") <= 1
        /\ \E i \in 1..Len(body) : IsDigit(body[i])

\* C20: for a text matching none of the three patterns, FromString strips
\* one leading ">" and one trailing "%"; a remainder that is a finite decimal
\* number n gives NewMeasure(n), any other remainder gives an error and no
\* value.
C20_NumericFallThrough ==
    (/\ Parsed
     /\ ~MatchesErrorPattern(mtext)
     /\ ~MatchesEmptyPattern(mtext)
     /\ ~MatchesTracePattern(mtext)) =>
        IF FiniteDecimal(Stripped(mtext))
        THEN /\ merr = "nil"
             /\ ms[1] = NewMeasure(ParseFloat(Stripped(mtext)).val)
        ELSE /\ merr # "nil"
             /\ ms[1] = ms[2]

\* C23: IsEmptyMeasurement, IsErrorMeasurement and IsTraceMeasurement each
\* return a boolean for every text, the empty one included, without a panic.
C23_ClassifiersTotal ==
    (mop = "Classify") => merr # "panic"

\* ---------------------------------------------------------------------------
\* ct.CleanBrands
\* ---------------------------------------------------------------------------

\* bound: the longest slice given to CleanBrands
MaxBrands == 3

\* the Measure fields of Brand
BrandMeasures ==
    {"TetrahydrocannabinolThc", "TetrahydrocannabinolAcidThca",
     "CannabidiolsCbd", "CannabidiolAcidCbda", "APinene", "BMyrcene",
     "BCaryophyllene", "BPinene", "Limonene", "Ocimene", "LinaloolLin",
     "HumuleneHum", "Cbg", "CbgA", "CannabavarinCbdv", "CannabichromeneCbc",
     "CannbinolCbn", "TetrahydrocannabivarinThcv", "ABisabolol",
     "APhellandrene", "ATerpinene", "BEudesmol", "BTerpinene", "Fenchone",
     "Pulegol", "Borneol", "Isopulegol", "Carene", "Camphene", "Camphor",
     "CaryophylleneOxide", "Cedrol", "Eucalyptol", "Geraniol", "Guaiol",
     "GeranylAcetate", "Isoborneol", "Menthol", "LFenchone", "Nerol",
     "Sabinene", "Terpineol", "Terpinolene", "TransBFarnesene", "Valencene",
     "ACedrene", "AFarnesene", "BFarnesene", "CisNerolidol", "Fenchol",
     "TransNerolidol"}

\* the Measure fields IsBrandErroneous tests
CheckedMeasures ==
    {"TetrahydrocannabinolThc", "TetrahydrocannabinolAcidThca",
     "CannabidiolsCbd", "CannabidiolAcidCbda", "APinene", "BMyrcene",
     "BCaryophyllene", "BPinene", "Limonene", "Ocimene", "LinaloolLin",
     "HumuleneHum", "Cbg", "CbgA", "CannabavarinCbdv", "CannabichromeneCbc",
     "CannbinolCbn", "TetrahydrocannabivarinThcv", "ABisabolol",
     "APhellandrene", "ATerpinene", "BEudesmol", "BTerpinene", "Fenchone",
     "Pulegol", "Borneol", "Isopulegol", "Carene", "Camphene", "Camphor",
     "CaryophylleneOxide", "Cedrol", "Eucalyptol", "Geraniol", "Guaiol",
     "GeranylAcetate", "Isoborneol", "Menthol", "LFenchone", "Nerol",
     "Sabinene", "Terpineol", "Terpinolene", "TransBFarnesene", "Valencene",
     "ACedrene", "AFarnesene", "BFarnesene", "CisNerolidol", "Fenchol",
     "TransNerolidol"}

\* a Brand: its name, its registration number and its Measure fields, all
\* Empty but the one named
MkBrand(name, reg, field, amount) ==
    [BrandName          |-> name,
     RegistrationNumber |-> reg,
     m |-> [f \in BrandMeasures |->
                IF f = field THEN amount ELSE measureEmptySentinel]]

\* the records tried, for one Measure field
BrandSamples(field) ==
    {MkBrand(name, reg, field, amount) :
        name \in {"", "b"}, reg \in {"", "r"},
        amount \in {NewMeasure(Fin(100, 0)), NewMeasure(Fin(101, 0))}}

\* IsBrandErroneous returns true if the brand is erroneous
IsBrandErroneous(b) ==
    \/ b.BrandName = ""
    \/ \E f \in CheckedMeasures : ~IsValidPercent(b.m[f])

\* the loop of slices.DeleteFunc: i is the next place to keep a record at,
\* j the next record to look at
RECURSIVE DeleteLoop(_, _, _)
DeleteLoop(s, i, j) ==
    IF j > Len(s) THEN SubSeq(s, 1, i - 1)
    ELSE IF ~IsBrandErroneous(s[j])
    THEN DeleteLoop([s EXCEPT ![i] = s[j]], i + 1, j + 1)
    ELSE DeleteLoop(s, i, j + 1)

\* slices.DeleteFunc that stops after the first record it deletes
DeleteFuncFirst(s) ==
    LET hits == {k \in 1..Len(s) : IsBrandErroneous(s[k])}
    IN  IF hits = {} THEN s
        ELSE LET i == CHOOSE k \in hits : \A h \in hits : k <= h
             IN  SubSeq(s, 1, i - 1) \o SubSeq(s, i + 1, Len(s))

\* slices.DeleteFunc(bs, IsBrandErroneous): the slice from its start to the
\* last record kept
DeleteFunc(s) ==
    LET hits == {k \in 1..Len(s) : IsBrandErroneous(s[k])}
    IN  IF hits = {} THEN s
        ELSE LET i == CHOOSE k \in hits : \A h \in hits : k <= h
             IN  DeleteLoop(s, i, i + 1)

\* CleanBrands removes erroneous brands from the list
CleanBrands(s) == DeleteFunc(s)

\* the slices of at most MaxBrands records, for one Measure field
BrandLists(field) ==
    UNION {[1..n -> BrandSamples(field)] : n \in 0..MaxBrands}

CleanInit ==
    /\ remote = <<>>
    /\ FetchStart
    /\ MeasureStart
    /\ mtext = <<>>
    /\ bs \in UNION {BrandLists(field) : field \in BrandMeasures}
    /\ cleaned = <<>>
    /\ cop = "none"
    /\ PrimeOff

\* cleaned := CleanBrands(bs)
CleanBrandsStep ==
    /\ cop = "none"
    /\ cleaned' = CleanBrands(bs)
    /\ cop' = "CleanBrands"
    /\ UNCHANGED bs
    /\ UNCHANGED <<fetchVars, measureVars, primeVars>>

CleanNext == CleanBrandsStep

CleanSpec == CleanInit /\ [][CleanNext]_vars

\* ---------------------------------------------------------------------------
\* Properties of CleanBrands
\* ---------------------------------------------------------------------------

Cleaned == cop = "CleanBrands"

\* the record is among those CleanBrands returned
Retained(b) == \E k \in 1..Len(cleaned) : cleaned[k] = b

\* C12: CleanBrands drops a record iff its registration number is empty or
\* one of its Measure fields is not a valid percent; a record with a
\* registration number and valid measures only is retained.
C12_DropRule ==
    Cleaned =>
        \A k \in 1..Len(bs) :
            ~Retained(bs[k]) <=>
                \/ bs[k].RegistrationNumber = ""
                \/ \E f \in BrandMeasures : ~IsValidPercent(bs[k].m[f])

\* the records of s that are not erroneous, in the order of s
RECURSIVE Valid(_)
Valid(s) ==
    IF s = <<>> THEN <<>>
    ELSE IF IsBrandErroneous(Head(s)) THEN Valid(Tail(s))
    ELSE <<Head(s)>> \o Valid(Tail(s))

\* C13: CleanBrands returns exactly the records for which IsBrandErroneous is
\* false, in their original order and with their fields as they were.
C13_StableFilter ==
    Cleaned => cleaned = Valid(bs)

\* an erroneous record stood between two different valid ones, which were
\* returned in their order
C13_Witness ==
    /\ Cleaned
    /\ Len(bs) = 3
    /\ IsBrandErroneous(bs[2])
    /\ bs[1] # bs[3]
    /\ cleaned = <<bs[1], bs[3]>>

\* ---------------------------------------------------------------------------
\* Properties of FetchBrands: the write handle and the page sequence
\* ---------------------------------------------------------------------------

C18_PageSequence ==
    /\ \A i \in 1..Len(requests) : requests[i] = (i - 1) * batchLimit
    /\ Len(requests) >= 1 =>
            Len(brands) >= (Len(requests) - 1) * batchLimit
    /\ pc = "loop" =>
            /\ failedAt = 0
            /\ Len(brands) = Len(requests) * batchLimit
            /\ offset = Len(requests) * batchLimit
    /\ failedAt # 0 => failedAt = Len(requests) /\ pc = "idle"
    /\ Len(brands) < Len(requests) * batchLimit => pc = "idle"

\* a call got a full first page and a short second one and returned
C18_Witness ==
    /\ Returned
    /\ ret = "ok"
    /\ requests = <<0, batchLimit>>
    /\ Len(retBrands) > batchLimit

\* the page request i of this call was for a page of the collection that
\* holds the malformed record
MalformedPage(i) ==
    \E k \in (requests[i] + 1)..Min(requests[i] + batchLimit, Len(remote)) :
        remote[k] = MalformedRec

\* C21: when a measurement field of a record of a page does not parse, the
\* whole call fails: no record of that page or of an earlier page is
\* returned, the artifact is removed, and no record is skipped to go on.
C21_MalformedFieldFailsSession ==
    (Returned /\ \E i \in 1..Len(requests) : MalformedPage(i)) =>
        /\ ret = "err"
        /\ retErr # "nil"
        /\ retBrands = <<>>
        /\ cache = NoFile

\* the second page of a call came back with status 200 and held the
\* malformed record, after a full first page had been decoded and streamed;
\* the call failed, returned nothing and left no artifact
C21_Witness ==
    /\ Returned
    /\ Len(requests) = 2
    /\ MalformedPage(2)
    /\ decodeErr = "measure"
    /\ Len(brands) = batchLimit
    /\ ret = "err"
    /\ retBrands = <<>>
    /\ cache = NoFile

\* ---------------------------------------------------------------------------
\* main.primeData
\* ---------------------------------------------------------------------------

\* maxCacheAge := 24 * time.Hour, in the unit of the clock
primeCacheAge == 1

\* the Brand a record of the feed decodes to: the second record of every four
\* has no brand name
BrandOf(rec) ==
    LET i == CHOOSE k \in 1..Len(RecName) : RecName[k] = rec
    IN  MkBrand(IF i % 4 = 2 THEN "" ELSE rec, rec, "TetrahydrocannabinolThc",
                FieldMeasure(rec).amount)

\* a CSV file written by an earlier run
OldCSV == <<"header", "old">>

\* brand.CSVValue(): the line of a brand, named by its registration number
CSVValue(b) == b.RegistrationNumber

\* the writes of the CSV export in their order: Brand{}.CSVHeaders(), then
\* brand.CSVValue() for each brand
CSVWrites(brs) == <<"header">> \o [i \in 1..Len(brs) |-> CSVValue(brs[i])]

\* the JSON artifacts an earlier run can have left: none, the array of the
\* records the feed had then, or an array with a comma before its "]"
OldArtifacts ==
    {NoFile, <<"[", "r1", ",", "r2", ",", "]">>}
    \cup {EncodeBrands(SubSeq(RecName, 1, n)) : n \in 0..MaxN}

\* primeData is about to call FetchBrands; the JSON artifact and the CSV file
\* of an earlier run may be on disk, the database is new
PrimeInit ==
    /\ remote \in Remotes
    /\ \E file \in OldArtifacts : FetchStartOn(file)
    /\ MeasureStart
    /\ mtext = <<>>
    /\ CleanStart
    /\ ppc = "fetch"
    /\ csv \in {NoFile, OldCSV}
    /\ dbRows = <<>>
    /\ perr = "nil"
    /\ steps = <<>>

\* time passes before the call
PrimeTick ==
    /\ ppc = "fetch"
    /\ ret = "none"
    /\ Tick

\* ct.FetchBrands(config.AppToken, maxCacheAge): the cache check
PrimeCheckCache(readOk) ==
    /\ ppc = "fetch"
    /\ ret = "none"
    /\ CheckCache(primeCacheAge, readOk)

\* ct.FetchBrands: the cache file is created
PrimeMakeCache(createOk, wOpen) ==
    /\ ppc = "fetch"
    /\ MakeCache(createOk, wOpen)

\* ct.FetchBrands: one page request
PrimePageRequest(resp, wComma, wBody, wClose) ==
    /\ ppc = "fetch"
    /\ PageRequest(resp, wComma, wBody, wClose)

\* FetchBrands returned: "fetch failed" on an error, the brands otherwise
\* (main.go 180-183)
PrimeFetched ==
    /\ ppc = "fetch"
    /\ Returned
    /\ steps' = Append(steps, "fetch")
    /\ IF ret = "err"
       THEN /\ ppc' = "failed"
            /\ perr' = "fetch failed"
            /\ UNCHANGED bs
       ELSE /\ ppc' = "clean"
            /\ bs' = [i \in 1..Len(retBrands) |-> BrandOf(retBrands[i])]
            /\ UNCHANGED perr
    /\ UNCHANGED <<cleaned, cop, csv, dbRows>>
    /\ UNCHANGED <<fetchVars, measureVars>>

\* brands = ct.CleanBrands(brands) (main.go 186)
PrimeClean ==
    /\ ppc = "clean"
    /\ cleaned' = CleanBrands(bs)
    /\ cop' = "CleanBrands"
    /\ ppc' = "csv"
    /\ steps' = Append(steps, "clean")
    /\ UNCHANGED <<bs, csv, dbRows, perr>>
    /\ UNCHANGED <<fetchVars, measureVars>>

\* the CSV export (main.go 189-196): the file is created, then the header
\* and one line for each brand are written; the results of the writes are
\* discarded, and the first nOk of them succeed
PrimeCSV(createOk, nOk) ==
    /\ ppc = "csv"
    /\ nOk \in 0..Len(CSVWrites(cleaned))
    /\ steps' = Append(steps, "csv")
    /\ LET mk == MakeCacheFile(csv, createOk)
       IN  IF mk.err # "nil"
           THEN /\ ppc' = "failed"
                /\ perr' = "failed to create CSV cache file"
                /\ UNCHANGED csv
           ELSE /\ ppc' = "insert"
                /\ csv' = FileWrite(mk.file,
                                    SubSeq(CSVWrites(cleaned), 1, nOk), TRUE)
                /\ UNCHANGED perr
    /\ UNCHANGED <<bs, cleaned, cop, dbRows>>
    /\ UNCHANGED <<fetchVars, measureVars>>

\* ct.DBInsertBrands(duckdbConn, brands) (main.go 200-202): nothing is
\* executed for an empty slice, one INSERT statement with every brand
\* otherwise, which takes effect whole or not at all
PrimeInsert(execOk) ==
    /\ ppc = "insert"
    /\ steps' = Append(steps, "insert")
    /\ IF Len(cleaned) = 0
       THEN /\ ppc' = "done"
            /\ UNCHANGED <<dbRows, perr>>
       ELSE IF execOk
       THEN /\ ppc' = "done"
            /\ dbRows' = dbRows \o cleaned
            /\ UNCHANGED perr
       ELSE /\ ppc' = "failed"
            /\ perr' = "ct.DBInsertBrands failed"
            /\ UNCHANGED dbRows
    /\ UNCHANGED <<bs, cleaned, cop, csv>>
    /\ UNCHANGED <<fetchVars, measureVars>>

PrimeNext ==
    \/ PrimeTick
    \/ \E readOk \in BOOLEAN : PrimeCheckCache(readOk)
    \/ \E createOk \in BOOLEAN, wOpen \in BOOLEAN :
            PrimeMakeCache(createOk, wOpen)
    \/ \E resp \in Responses(remote, offset, batchLimit),
          wComma \in BOOLEAN, wBody \in BOOLEAN, wClose \in BOOLEAN :
            PrimePageRequest(resp, wComma, wBody, wClose)
    \/ PrimeFetched
    \/ PrimeClean
    \/ \E createOk \in BOOLEAN, nOk \in 0..(MaxN + 1) : PrimeCSV(createOk, nOk)
    \/ \E execOk \in BOOLEAN : PrimeInsert(execOk)

PrimeSpec == PrimeInit /\ [][PrimeNext]_vars

\* ---------------------------------------------------------------------------
\* Properties of primeData
\* ---------------------------------------------------------------------------

\* the CSV file is as it was before the run
CSVUntouched == csv \in {NoFile, OldCSV}

\* the lines of the CSV file below the header
CSVRows == IF CSVUntouched \/ csv = <<>> THEN <<>> ELSE Tail(csv)

\* C22: the steps of primeData run in the order fetch, clean, CSV export,
\* insert; when FetchBrands fails the CSV file is not touched and no insert
\* is attempted; every record in the CSV file or in the table passed
\* CleanBrands; after a failed run each sink is as it was or holds every
\* cleaned record.
C22_IngestionOrder ==
    /\ \E n \in 0..4 : steps = SubSeq(<<"fetch", "clean", "csv", "insert">>, 1, n)
    /\ (ppc = "failed" /\ perr = "fetch failed") =>
            /\ CSVUntouched
            /\ dbRows = <<>>
            /\ steps = <<"fetch">>
    /\ \A i \in 1..Len(CSVRows) :
            \E k \in 1..Len(cleaned) :
                /\ CSVValue(cleaned[k]) = CSVRows[i]
                /\ ~IsBrandErroneous(cleaned[k])
    /\ \A i \in 1..Len(dbRows) :
            /\ ~IsBrandErroneous(dbRows[i])
            /\ \E k \in 1..Len(cleaned) : cleaned[k] = dbRows[i]
    /\ ppc = "failed" =>
            /\ CSVUntouched \/ csv = CSVWrites(cleaned)
            /\ dbRows = <<>> \/ dbRows = cleaned

====
